---- MODULE Spec2Model ----
(***************************************************************************)
(* Model of command fred2ch (src/fred2ch.go): one series is pulled from    *)
(* the FRED observations API, the destination ClickHouse table is dropped  *)
(* and re-created, and the observations dated 1970 or later are written    *)
(* to a writer and inserted with one Insert call.                          *)
(*                                                                         *)
(* Dates are sequences of one-character strings so that time.Parse and     *)
(* Time.Format are modelled character by character.  The ClickHouse        *)
(* server and the FRED API are the environment: each call to them either   *)
(* succeeds or fails, and an Insert is atomic at the sink.                 *)
(***************************************************************************)
EXTENDS Integers, Sequences, FiniteSets, TLC

\* ------------------------------------------------------------------ bounds
MaxObs == 2
MaxRuns == 2

\* ------------------------------------------------------ dates as text
Digits == <<"0", "1", "2", "3", "4", "5", "6", "7", "8", "9">>

isDigit(s, i) == i <= Len(s) /\ \E k \in 1..10 : Digits[k] = s[i]

DigitVal(c) == (CHOOSE k \in 1..10 : Digits[k] = c) - 1

DigitChar(n) == Digits[n + 1]

\* time.Time restricted to its calendar date
Time(y, m, d) == [year |-> y, month |-> m, day |-> d]

\* the zero Time, returned by time.Parse together with an error
ZeroTime == Time(1, 1, 1)

isLeap(year) == year % 4 = 0 /\ (year % 100 # 0 \/ year % 400 = 0)

daysIn(m, year) ==
    IF m = 2 THEN (IF isLeap(year) THEN 29 ELSE 28)
    ELSE IF m \in {4, 6, 9, 11} THEN 30 ELSE 31

\* time.Parse("2006-01-02", s): stdLongYear wants four digits, stdZeroMonth
\* and stdZeroDay want exactly two digits each, the separators are literal,
\* month and day are range checked and no text may follow.
ParseDate(s) ==
    IF Len(s) # 10
         \/ \E i \in {1, 2, 3, 4, 6, 7, 9, 10} : ~isDigit(s, i)
         \/ s[5] # "-" \/ s[8] # "-"
    THEN [err |-> TRUE, t |-> ZeroTime]
    ELSE LET y == 1000 * DigitVal(s[1]) + 100 * DigitVal(s[2])
                    + 10 * DigitVal(s[3]) + DigitVal(s[4])
             m == 10 * DigitVal(s[6]) + DigitVal(s[7])
             d == 10 * DigitVal(s[9]) + DigitVal(s[10])
         IN  IF m < 1 \/ m > 12 \/ d < 1 \/ d > daysIn(m, y)
             THEN [err |-> TRUE, t |-> ZeroTime]
             ELSE [err |-> FALSE, t |-> Time(y, m, d)]

\* a formatter that does not pad month and day (layout "2006-1-2")
FormatDateUnpadded(t) ==
    LET num(n) == IF n < 10 THEN <<DigitChar(n)>>
                  ELSE <<DigitChar(n \div 10), DigitChar(n % 10)>>
    IN  <<DigitChar(t.year \div 1000), DigitChar((t.year \div 100) % 10),
          DigitChar((t.year \div 10) % 10), DigitChar(t.year % 10), "-">>
        \o num(t.month) \o <<"-">> \o num(t.day)

\* Time.Format("2006-01-02") for years 0..9999
FormatDate(t) ==
    <<DigitChar(t.year \div 1000), DigitChar((t.year \div 100) % 10),
      DigitChar((t.year \div 10) % 10), DigitChar(t.year % 10), "-",
      DigitChar(t.month \div 10), DigitChar(t.month % 10), "-",
      DigitChar(t.day \div 10), DigitChar(t.day % 10)>>

\* ------------------------------------------------------------- inputs
Chars(a, b, c, d, e, f, g, h, i, j) == <<a, b, c, d, e, f, g, h, i, j>>

\* Datum: the date and value strings of one observation
Datum(date, value) == [Date |-> date, Value |-> value]

Observations ==
    { Datum(Chars("2","0","2","0","-","0","2","-","2","9"), "3.5"),
      Datum(Chars("1","9","7","0","-","0","1","-","0","1"), "."),
      Datum(Chars("1","9","6","9","-","1","2","-","3","1"), "2.9"),
      Datum(Chars("n","o","t","-","a","-","d","a","t","e"), "1.2"),
      Datum(Chars("2","0","2","1","-","0","2","-","2","9"), "7.0"),
      Datum(<<"2","0","2","0","-","1","-","0","1">>, "0.5") }

ObsLists == UNION { [1..n -> Observations] : n \in 0..MaxObs }

SeriesIds == {"UNRATE", "GDP"}

\* what the HTTP GET yields: a transport failure, a body that is not JSON,
\* a JSON object without "observations", with "observations":null, or with
\* an "observations" array
Responses ==
    { [kind |-> k, items |-> <<>>] : k \in {"transport", "garbage", "absent", "null"} }
    \cup { [kind |-> "array", items |-> l] : l \in ObsLists }

\* ------------------------------------------------------------- state
VARIABLES
    pc,          \* position of the process in main / loadSeries
    run,         \* number of the current invocation of the command
    seriesId,    \* -series argument of the current invocation
    con,         \* ClickHouse connection: "none", "open" or "closed"
    conCloses,   \* number of con.Close() calls of this invocation
    wtr,         \* row writer: "none", "open" or "closed"
    wtrCloses,   \* number of wtr.Close() calls of this invocation
    parsed,      \* decoded Series.Results: [isNil, items]
    idx,         \* index of the next element of data.Results in the range loop
    loaded,      \* the loaded counter of loadSeries
    hold,        \* lines accepted by wtr.Write and not yet inserted
    table,       \* destination table at the sink: [exists, rows]
    tableAtStart,\* the destination table when this invocation started
    calls,       \* API and sink calls issued by this invocation, in order
    trail,       \* per loop iteration: the resolved date and what was done
    response,    \* what the HTTP GET of this invocation yielded
    err,         \* error that ended the invocation, "nil" if none
    exitStatus   \* process exit status, -1 while running

vars == <<pc, run, seriesId, con, conCloses, wtr, wtrCloses, parsed, idx,
          loaded, hold, table, tableAtStart, calls, trail, response, err, exitStatus>>

NilResults == [isNil |-> TRUE, items |-> <<>>]

NoTable == [exists |-> FALSE, rows |-> <<>>]

Call(op, ok) == [op |-> op, ok |-> ok]

\* ------------------------------------------------- pieces of the code
\* json.Unmarshal(body, &parsed) as far as parsed.Results is concerned: an
\* absent key or null leaves the slice nil, an array (also an empty one)
\* yields a non-nil slice
Unmarshal(resp) ==
    CASE resp.kind = "garbage" -> [e |-> "decode", Results |-> NilResults]
      [] resp.kind \in {"absent", "null"} -> [e |-> "nil", Results |-> NilResults]
      [] OTHER -> [e |-> "nil", Results |-> [isNil |-> FALSE, items |-> resp.items]]

\* getSeries: result [e, Results]
getSeries(resp) ==
    IF resp.kind = "transport" THEN [e |-> "fetch", Results |-> NilResults]
    ELSE LET u == Unmarshal(resp)
         IN  IF u.e # "nil" THEN u
             ELSE IF u.Results.isNil THEN [e |-> "nodata", Results |-> NilResults]
             ELSE u

\* main going on to loadSeries whatever getSeries returned
AfterGetSeriesIgnoringError(e) == "loadSeries"

\* main, after getSeries returned e
AfterGetSeries(e) == IF e # "nil" THEN "Fatalln" ELSE "loadSeries"

\* a create that keeps a table that is already there
CreateIfNotExists(t) == IF t.exists THEN t ELSE [exists |-> TRUE, rows |-> <<>>]

\* td.Create(con, table) succeeding: the existing table is dropped and an
\* empty one is created
Create(t) == [exists |-> TRUE, rows |-> <<>>]

\* the sentinel of loadSeries
missing == Time(1969, 1, 1)

FloorYear == 1970

\* the parse error left unhandled: dt stays the zero Time
ResolveDateUnchecked(d) == ParseDate(d.Date).t

\* dt after the parse and the substitution of the sentinel
ResolveDate(d) ==
    LET r == ParseDate(d.Date) IN IF r.err THEN missing ELSE r.t

\* a floor test that lets the sentinel's year through
SkipBefore1969(dt) == dt.year < 1969

\* the test guarding `continue`
Skip(dt) == dt.year < FloorYear

\* the line handed to wtr.Write, as its three fields (the first two are
\* single-quoted by the format string, the third is written bare)
Line(id, dt, value) == <<id, FormatDate(dt), value>>

\* the loop breaking out to the Insert on a write error
AfterWriteBreak(ok) == IF ok THEN "range" ELSE "Insert"

\* loadSeries after wtr.Write
AfterWrite(ok) == IF ok THEN "range" ELSE "Fatalln"

\* the counter also counting skipped observations
CountAll(n, wrote) == n + 1

\* the loaded counter after one iteration
Count(n, wrote) == IF wrote THEN n + 1 ELSE n

\* wtr.Insert(): one INSERT statement carrying every held line
InsertOutcome(t, lines, ok) == IF ok THEN [t EXCEPT !.rows = @ \o lines] ELSE t

\* ------------------------------------------------------------ actions
NoResponse == [kind |-> "none", items |-> <<>>]

\* the state of a freshly started process, the sink keeping table t
Start(id, n, t) ==
    /\ pc = "NewConnect" /\ run = n /\ seriesId = id
    /\ con = "none" /\ conCloses = 0 /\ wtr = "none" /\ wtrCloses = 0
    /\ parsed = NilResults /\ idx = 1 /\ loaded = 0 /\ hold = <<>>
    /\ table = t /\ tableAtStart = t
    /\ calls = <<>> /\ trail = <<>> /\ response = NoResponse
    /\ err = "nil" /\ exitStatus = -1

Init == \E id \in SeriesIds : Start(id, 1, NoTable)

\* chutils.NewConnect and the deferred con.Close being registered
NewConnect ==
    /\ pc = "NewConnect"
    /\ \E ok \in BOOLEAN :
         /\ con' = IF ok THEN "open" ELSE "none"
         /\ pc' = IF ok THEN "getSeries" ELSE "Fatalln"
         /\ err' = IF ok THEN "nil" ELSE "connect"
    /\ UNCHANGED <<run, seriesId, conCloses, wtr, wtrCloses, parsed, idx, loaded,
                   hold, table, tableAtStart, calls, trail, response, exitStatus>>

\* results, e := getSeries(...) and main's test of e
GetSeries ==
    /\ pc = "getSeries"
    /\ \E resp \in Responses :
         LET r == getSeries(resp)
         IN  /\ response' = resp
             /\ parsed' = r.Results
             /\ calls' = Append(calls, Call("getSeries", r.e = "nil"))
             /\ err' = r.e
             /\ pc' = AfterGetSeries(r.e)
    /\ UNCHANGED <<run, seriesId, con, conCloses, wtr, wtrCloses, idx, loaded,
                   hold, table, tableAtStart, trail, exitStatus>>

\* loadSeries up to the loop: makeTable succeeds, the writer is created and
\* its Close deferred
MakeTable ==
    /\ pc = "loadSeries"
    /\ table' = Create(table)
    /\ calls' = Append(calls, Call("Create", TRUE))
    /\ wtr' = "open"
    /\ idx' = 1 /\ loaded' = 0 /\ hold' = <<>>
    /\ pc' = "range"
    /\ UNCHANGED <<run, seriesId, con, conCloses, wtrCloses, parsed,
                   tableAtStart, trail, response, err, exitStatus>>

\* makeTable fails: td.Check rejects the definition (no call to the sink), or
\* td.Create fails before or after the old table was dropped; loadSeries
\* returns the error before a writer exists
MakeTableError ==
    /\ pc = "loadSeries"
    /\ \E how \in {"check", "drop", "create"} :
         /\ calls' = IF how = "check" THEN calls
                     ELSE Append(calls, Call("Create", FALSE))
         /\ table' = IF how = "create" THEN NoTable ELSE table
    /\ err' = "schema"
    /\ pc' = "Fatalln"
    /\ UNCHANGED <<run, seriesId, con, conCloses, wtr, wtrCloses, parsed, idx,
                   loaded, hold, tableAtStart, trail, response, exitStatus>>

\* one iteration of the range loop that ends in `continue`
LoopSkip ==
    /\ pc = "range" /\ idx <= Len(parsed.items)
    /\ LET d == parsed.items[idx]
           dt == ResolveDate(d)
       IN  /\ Skip(dt)
           /\ trail' = Append(trail, [d |-> d, dt |-> dt, skipped |-> TRUE, wrote |-> FALSE])
    /\ idx' = idx + 1
    /\ loaded' = Count(loaded, FALSE)
    /\ UNCHANGED <<pc, run, seriesId, con, conCloses, wtr, wtrCloses, parsed,
                   hold, table, tableAtStart, calls, response, err, exitStatus>>

\* one iteration of the range loop that reaches wtr.Write; on an error
\* loadSeries returns it and the deferred wtr.Close runs
LoopWrite ==
    /\ pc = "range" /\ idx <= Len(parsed.items)
    /\ LET d == parsed.items[idx]
           dt == ResolveDate(d)
       IN  /\ ~Skip(dt)
           /\ \E ok \in BOOLEAN :
                /\ calls' = Append(calls, Call("Write", ok))
                /\ trail' = Append(trail, [d |-> d, dt |-> dt, skipped |-> FALSE, wrote |-> ok])
                /\ hold' = IF ok THEN Append(hold, Line(seriesId, dt, d.Value))
                           ELSE hold
                /\ loaded' = IF ok THEN Count(loaded, TRUE) ELSE loaded
                /\ idx' = IF ok THEN idx + 1 ELSE idx
                /\ err' = IF ok THEN err ELSE "write"
                /\ pc' = AfterWrite(ok)
                /\ wtr' = IF pc' = "Fatalln" THEN "closed" ELSE wtr
                /\ wtrCloses' = IF pc' = "Fatalln" THEN wtrCloses + 1 ELSE wtrCloses
    /\ UNCHANGED <<run, seriesId, con, conCloses, parsed, table, tableAtStart,
                   response, exitStatus>>

\* the range loop is exhausted
RangeDone ==
    /\ pc = "range" /\ idx > Len(parsed.items)
    /\ pc' = "Insert"
    /\ UNCHANGED <<run, seriesId, con, conCloses, wtr, wtrCloses, parsed, idx,
                   loaded, hold, table, tableAtStart, calls, trail, response,
                   err, exitStatus>>

\* wtr.Insert(), the return of loadSeries and the deferred wtr.Close
Insert ==
    /\ pc = "Insert"
    /\ \E ok \in BOOLEAN :
         /\ calls' = Append(calls, Call("Insert", ok))
         /\ table' = InsertOutcome(table, hold, ok)
         /\ err' = IF ok THEN err ELSE "commit"
         /\ pc' = IF ok THEN "return" ELSE "Fatalln"
    /\ wtr' = "closed"
    /\ wtrCloses' = wtrCloses + 1
    /\ UNCHANGED <<run, seriesId, con, conCloses, parsed, idx, loaded, hold,
                   tableAtStart, trail, response, exitStatus>>

\* log.Fatalln: os.Exit(1); deferred functions are not run
Fatalln ==
    /\ pc = "Fatalln"
    /\ exitStatus' = 1
    /\ pc' = "exited"
    /\ UNCHANGED <<run, seriesId, con, conCloses, wtr, wtrCloses, parsed, idx,
                   loaded, hold, table, tableAtStart, calls, trail, response, err>>

\* main prints the elapsed time and returns; the deferred con.Close runs
Return ==
    /\ pc = "return"
    /\ con' = "closed"
    /\ conCloses' = conCloses + 1
    /\ exitStatus' = 0
    /\ pc' = "exited"
    /\ UNCHANGED <<run, seriesId, wtr, wtrCloses, parsed, idx, loaded, hold,
                   table, tableAtStart, calls, trail, response, err>>

\* the command is invoked again against the same table
NewRun ==
    /\ pc = "exited" /\ run < MaxRuns
    /\ \E id \in SeriesIds :
         /\ pc' = "NewConnect" /\ run' = run + 1 /\ seriesId' = id
         /\ con' = "none" /\ conCloses' = 0 /\ wtr' = "none" /\ wtrCloses' = 0
         /\ parsed' = NilResults /\ idx' = 1 /\ loaded' = 0 /\ hold' = <<>>
         /\ table' = table /\ tableAtStart' = table
         /\ calls' = <<>> /\ trail' = <<>> /\ response' = NoResponse
         /\ err' = "nil" /\ exitStatus' = -1

Next ==
    \/ NewConnect
    \/ GetSeries
    \/ MakeTable
    \/ MakeTableError
    \/ LoopSkip
    \/ LoopWrite
    \/ RangeDone
    \/ Insert
    \/ Fatalln
    \/ Return
    \/ NewRun

Spec == Init /\ [][Next]_vars

TypeOK ==
    /\ pc \in {"NewConnect", "getSeries", "loadSeries", "range", "Insert",
               "Fatalln", "return", "exited"}
    /\ run \in 1..MaxRuns
    /\ con \in {"none", "open", "closed"} /\ wtr \in {"none", "open", "closed"}
    /\ idx \in 1..(MaxObs + 1) /\ loaded \in 0..MaxObs
    /\ exitStatus \in {-1, 0, 1}

\* ------------------------------------------------- vocabulary of the claims
HasCall(op, ok) == \E i \in 1..Len(calls) : calls[i] = Call(op, ok)

Issued(op) == \E i \in 1..Len(calls) : calls[i].op = op

NumCalls(op, ok) == Cardinality({i \in 1..Len(calls) : calls[i] = Call(op, ok)})

Occurrences(seq, x) == Cardinality({i \in 1..Len(seq) : seq[i] = x})

\* a date string that is a valid YYYY-MM-DD date of 1970 or later
ValidFromFloor(date) ==
    LET r == ParseDate(date) IN ~r.err /\ r.t.year >= 1970

Malformed(date) == ParseDate(date).err

\* the rows expected of a list of observations: those with a valid date on
\* or after the floor, in order, carrying the input strings
ExpectedRows(id, items) ==
    LET f == SelectSeq(items, LAMBDA d : ValidFromFloor(d.Date))
    IN  [i \in 1..Len(f) |-> <<id, f[i].Date, f[i].Value>>]

ZeroObservations ==
    \/ response.kind = "absent"
    \/ response.kind = "array" /\ response.items = <<>>

Finished == pc = "exited"

Succeeded == pc = "exited" /\ exitStatus = 0

\* ------------------------------------------------------------- claims

\* C1: when the response decodes to zero observations (the observations
\* array absent, or present and empty) getSeries returns the no-data error
\* and no create-table call, row write or commit is issued in that run.
C1_EmptyResponseRejected ==
    ZeroObservations =>
        /\ err = "nodata"
        /\ ~Issued("Create") /\ ~Issued("Write") /\ ~Issued("Insert")

\* C2: after every successful run the table holds exactly the rows written
\* by that run, in their multiplicity; nothing of an earlier run remains.
C2_ReplaceNotAppend ==
    Succeeded => table.exists /\ table.rows = hold

C2_Witness ==
    /\ Succeeded /\ run = 2
    /\ tableAtStart.rows # <<>> /\ hold # <<>>
    /\ tableAtStart.rows # hold

\* C3: after a successful load every observation with a valid YYYY-MM-DD
\* date of 1970 or later has exactly one row, written and committed, that
\* carries the series argument, the input date string and the raw value.
C3_RoundTrip ==
    Succeeded =>
        \A d \in Observations :
            ValidFromFloor(d.Date) =>
                LET row == <<seriesId, d.Date, d.Value>>
                IN  /\ Occurrences(hold, row) = Occurrences(parsed.items, d)
                    /\ Occurrences(table.rows, row) = Occurrences(parsed.items, d)

C3_Witness ==
    /\ Succeeded
    /\ \E i \in 1..Len(parsed.items) : ValidFromFloor(parsed.items[i].Date)
    /\ Len(table.rows) = 2

C5_MalformedGetsSentinel ==
    \A i \in 1..Len(trail) :
        Malformed(trail[i].d.Date) =>
            /\ trail[i].dt = Time(1969, 1, 1)
            /\ trail[i].skipped <=> trail[i].dt.year < 1970

C5_Witness ==
    \E i \in 1..Len(trail) :
        /\ Malformed(trail[i].d.Date)
        /\ trail[i].dt = Time(1969, 1, 1)
        /\ trail[i].skipped

\* C6: a failed row write is the last call of the run and no commit is
\* issued after it; at most one commit is issued; and as long as the run
\* has created the table without a successful commit the table shows no row.
C6_AllOrNothing ==
    /\ HasCall("Write", FALSE) =>
          /\ calls[Len(calls)] = Call("Write", FALSE)
          /\ ~Issued("Insert")
    /\ NumCalls("Insert", TRUE) + NumCalls("Insert", FALSE) <= 1
    /\ (HasCall("Create", TRUE) /\ ~HasCall("Insert", TRUE)) => table.rows = <<>>
    /\ (Finished /\ err \in {"write", "commit"}) => table.rows = <<>>

C6_Witness ==
    /\ Finished /\ err = "write"
    /\ hold # <<>>
    /\ table.rows = <<>>

\* C7: on every exit after the connection was acquired, the connection has
\* been closed exactly once and the writer, if created, exactly once.
C7_ScopedResources ==
    (Finished /\ err # "connect") =>
        /\ con = "closed" /\ conCloses = 1
        /\ wtr # "none" => (wtr = "closed" /\ wtrCloses = 1)

\* C8: the calls of a run are ordered fetch, create, writes, commit; a
\* create follows a successful fetch, a write a successful create; a failed
\* call is the last call of its run and the run exits with status 1; a
\* successful run ends with its only commit.
Rank(op) ==
    CASE op = "getSeries" -> 1 [] op = "Create" -> 2
      [] op = "Write" -> 3 [] op = "Insert" -> 4

C8_StageOrdering ==
    /\ \A i, j \in 1..Len(calls) :
          i < j => /\ Rank(calls[i].op) <= Rank(calls[j].op)
                   /\ Rank(calls[i].op) = Rank(calls[j].op) => calls[i].op = "Write"
    /\ \A i \in 1..Len(calls) : ~calls[i].ok => i = Len(calls)
    /\ Issued("Create") => calls[1] = Call("getSeries", TRUE)
    /\ (Issued("Write") \/ Issued("Insert")) => calls[2] = Call("Create", TRUE)
    /\ (Finished /\ \E i \in 1..Len(calls) : ~calls[i].ok) => exitStatus = 1
    /\ Succeeded => /\ calls[Len(calls)] = Call("Insert", TRUE)
                    /\ NumCalls("Insert", TRUE) = 1

C8_Witness ==
    /\ Succeeded
    /\ Len(calls) = 5
    /\ NumCalls("Write", TRUE) = 2

\* C9: while the writer exists, the lines it accepted are the rows of the
\* observations processed so far that pass the date check, in the API's
\* order; one write call was made per such observation; and the loaded
\* counter equals the number of successful write calls.
C9_OrderAndCount ==
    wtr # "none" =>
        LET done == SubSeq(parsed.items, 1, idx - 1)
        IN  /\ hold = ExpectedRows(seriesId, done)
            /\ loaded = NumCalls("Write", TRUE)
            /\ loaded = Len(hold)
            /\ NumCalls("Write", TRUE) + NumCalls("Write", FALSE)
                 = Len(hold) + (IF err = "write" THEN 1 ELSE 0)
            /\ Len(trail) = idx - 1 + (IF err = "write" THEN 1 ELSE 0)

C9_Witness ==
    /\ pc = "Insert"
    /\ Len(parsed.items) = 2
    /\ Len(hold) = 1 /\ loaded = 1
    /\ trail[1].skipped

\* C10: a run that fails with a write error or a commit error leaves the
\* destination table existing and empty, whatever it held before.
C10_FailedLoadLeavesEmptyTable ==
    err \in {"write", "commit"} => table.exists /\ table.rows = <<>>

C10_Witness ==
    /\ Finished /\ err \in {"write", "commit"}
    /\ tableAtStart.rows # <<>>
    /\ table.exists /\ table.rows = <<>>

====
